---- MODULE Spec2Model ----
(***************************************************************************)
(* Model of the per-operation core of open-api-mocker:                     *)
(*   src/lib/paths/path.js                      (class Path)               *)
(*   src/lib/mocker/express/request-handler.js  (handleRequest)            *)
(*                                                                         *)
(* JSON values are records [t, v]: t is the JavaScript type of the value   *)
(* and v its text as a sequence of one-character strings (for an object: *)
(* the flat sequence key1, value1, key2, value2, ... in insertion order).  *)
(* JavaScript objects whose key order matters (maps of examples, of        *)
(* responses, of headers, of query parameters) are sequences of entries in *)
(* insertion order.                                                        *)
(***************************************************************************)
EXTENDS Integers, Sequences, FiniteSets, TLC

VARIABLES
    path,            \* the Path object (the Operation): uri, parameters, requestBody, responses, security
    securityConfig,  \* the securityConfig handleRequest was built with
    call,            \* the last call made: which function and its arguments
    ret,             \* what that call returned (or that it threw)
    log,             \* handleRequest: the steps the last request went through, in order
    sent             \* handleRequest: the responses handed to responseHandler for the last request

vars == <<path, securityConfig, call, ret, log, sent>>

----------------------------------------------------------------------------
(* JSON values *)

Num(c)    == [t |-> "number",    v |-> c]
Str(c)    == [t |-> "string",    v |-> c]
Arr(c)    == [t |-> "array",     v |-> c]
Obj(c)    == [t |-> "object",    v |-> c]
Bool(c)   == [t |-> "boolean",   v |-> c]
Null      == [t |-> "null",      v |-> <<>>]
Undefined == [t |-> "undefined", v |-> <<>>]

\* The absent name (JavaScript undefined where a string is expected).
NoName == "<undefined>"

\* CONSTANTS.FIRST_RESPONSE of lib/utils/constants
FIRST_RESPONSE == "FIRST_RESPONSE"

\* !!x for a JSON value
Truthy(x) ==
    CASE x.t \in {"null", "undefined"} -> FALSE
      [] x.t = "string"  -> x.v # <<>>
      [] x.t = "number"  -> x.v \notin {<<"0">>, <<"N", "a", "N">>}
      [] x.t = "boolean" -> x.v = <<"true">>
      [] OTHER -> TRUE

\* String(i - 1): the key Object.entries gives the i-th element of a string or array
IndexKey(i) == <<"0", "1", "2", "3", "4", "5", "6", "7", "8", "9">>[i]

RECURSIVE IndexedEntries(_, _)
IndexedEntries(s, i) ==
    IF i > Len(s) THEN <<>>
    ELSE <<IndexKey(i), s[i]>> \o IndexedEntries(s, i + 1)

\* Object.entries(x) throws a TypeError for null and undefined
ObjectEntriesThrows(x) == x.t \in {"null", "undefined"}

\* Object.entries(x).toString(), as the sequence of the items its commas separate:
\* a number or a boolean has no own enumerable property, a string or an array has
\* one per index, an object one per key.
EntriesToString(x) ==
    CASE x.t \in {"string", "array"} -> IndexedEntries(x.v, 1)
      [] x.t = "object" -> x.v
      [] OTHER -> <<>>

\* The key/value pairs of an object value
Pairs(x) == {<<x.v[2 * i - 1], x.v[2 * i]>> : i \in 1..(Len(x.v) \div 2)}

\* hash(a) === hash(b) of object-hash: the type and the content decide, the order of
\* an object's keys does not
HashEq(a, b) ==
    /\ a.t = b.t
    /\ IF a.t = "object" THEN Pairs(a) = Pairs(b) ELSE a.v = b.v

\* String.prototype.toLowerCase on the names the model uses
ToLowerCase(s) ==
    CASE s = "X-Id" -> "x-id"
      [] s = "X-API-Key" -> "x-api-key"
      [] s = "Bearer" -> "bearer"
      [] OTHER -> s

----------------------------------------------------------------------------
(* Counter maps {name: count} in insertion order *)

Count(m, name) ==
    IF \E i \in 1..Len(m) : m[i].name = name
    THEN (CHOOSE e \in {m[i] : i \in 1..Len(m)} : e.name = name).n
    ELSE 0

\* if(!m[name]) m[name] = 0; m[name]++;
Increment(m, name) ==
    IF \E i \in 1..Len(m) : m[i].name = name
    THEN [i \in 1..Len(m) |-> IF m[i].name = name THEN [m[i] EXCEPT !.n = @ + 1] ELSE m[i]]
    ELSE Append(m, [name |-> name, n |-> 1])

RECURSIVE IncrementAll(_, _)
IncrementAll(m, names) ==
    IF names = <<>> THEN m
    ELSE IncrementAll(Increment(m, Head(names)), Tail(names))

ExampleNames(examples) == [i \in 1..Len(examples.list) |-> examples.list[i].name]

----------------------------------------------------------------------------
(* Path.findPreferredExampleByRequest *)

\* Step 1: one count per place (parameter, request-body content entry) that
\* declares an examples map, for every name of that map
RECURSIVE TallyDeclared(_, _)
TallyDeclared(m, holders) ==
    IF holders = <<>> THEN m
    ELSE TallyDeclared(
            IF Head(holders).examples.has
            THEN IncrementAll(m, ExampleNames(Head(holders).examples))
            ELSE m,
            Tail(holders))

ContentEntries(p) ==
    IF p.requestBody.declared /\ p.requestBody.content.has
    THEN p.requestBody.content.list
    ELSE <<>>

TotalExamples(p) == TallyDeclared(TallyDeclared(<<>>, p.parameters), ContentEntries(p))

\* Object.keys(totalExamples) === 0 compares an Array with a number by strict
\* equality, which is false for every tally
TallyIsEmpty(total) == FALSE

\* x.in === kind && x.name === key (for a header: both names lower-cased)
NameMatches(kind, x, key) ==
    /\ x.in = kind
    /\ IF kind = "header" THEN ToLowerCase(x.name) = ToLowerCase(key) ELSE x.name = key

\* this.parameters.find(...): the index of the first parameter declared for the
\* key, 0 when find returns undefined
FindParameter(p, kind, key) ==
    IF \E i \in 1..Len(p.parameters) : NameMatches(kind, p.parameters[i], key)
    THEN CHOOSE i \in 1..Len(p.parameters) :
            /\ NameMatches(kind, p.parameters[i], key)
            /\ \A j \in 1..(i - 1) : ~NameMatches(kind, p.parameters[j], key)
    ELSE 0

\* The examples compared with one request entry: those of the parameter declared
\* for it, none when there is no such parameter or it declares no examples
ExamplesFor(p, kind, key) ==
    LET i == FindParameter(p, kind, key) IN
    IF i # 0 /\ p.parameters[i].examples.has THEN p.parameters[i].examples.list ELSE <<>>

\* Object.entries(exampleData.value).toString() === Object.entries(value).toString()
SameEntries(exampleValue, value) == EntriesToString(exampleValue) = EntriesToString(value)

RECURSIVE MatchOneEntry(_, _, _)
MatchOneEntry(m, examples, value) ==
    IF examples = <<>> THEN m
    ELSE MatchOneEntry(
            IF SameEntries(Head(examples).value, value)
            THEN Increment(m, Head(examples).name)
            ELSE m,
            Tail(examples), value)

\* One facet of parameters (path, query or header): every entry of the request,
\* in order, against the examples of its parameter
RECURSIVE MatchFacet(_, _, _, _)
MatchFacet(m, p, kind, entries) ==
    IF entries = <<>> THEN m
    ELSE MatchFacet(
            MatchOneEntry(m, ExamplesFor(p, kind, Head(entries).k), Head(entries).v),
            p, kind, Tail(entries))

\* Object.entries of an example value or of the request's value throws
FacetThrows(p, kind, entries) ==
    \E i \in 1..Len(entries) :
        LET examples == ExamplesFor(p, kind, entries[i].k) IN
        /\ examples # <<>>
        /\ \/ ObjectEntriesThrows(entries[i].v)
           \/ \E j \in 1..Len(examples) : ObjectEntriesThrows(examples[j].value)

\* this.uri.includes('{')
UriHasBrace(uri) == \E i \in 1..Len(uri) : uri[i].param

\* new PathParser(uri with {x} as :x).test(url): the url binds to the template
\* when it has the template's segments, the literal ones equal
PathBinds(uri, url) ==
    /\ Len(uri) = Len(url)
    /\ \A i \in 1..Len(uri) : uri[i].param \/ uri[i].s = url[i]

\* The entries of the object path.test returns for a url that binds
RECURSIVE PathVariables(_, _)
PathVariables(uri, url) ==
    IF uri = <<>> THEN <<>>
    ELSE (IF Head(uri).param
          THEN <<[k |-> Head(uri).s, v |-> Str(<<Head(url)>>)]>>
          ELSE <<>>) \o PathVariables(Tail(uri), Tail(url))

\* The body facet: the parsed body against every example of every content entry
RECURSIVE MatchBodyExamples(_, _, _)
MatchBodyExamples(m, examples, bodyObject) ==
    IF examples = <<>> THEN m
    ELSE MatchBodyExamples(
            IF HashEq(Head(examples).value, bodyObject)
            THEN Increment(m, Head(examples).name)
            ELSE m,
            Tail(examples), bodyObject)

RECURSIVE MatchBody(_, _, _)
MatchBody(m, content, bodyObject) ==
    IF content = <<>> THEN m
    ELSE MatchBody(MatchBodyExamples(m, Head(content).examples.list, bodyObject),
                   Tail(content), bodyObject)

\* Step 2: matchExamples after the four facets (when none of them throws)
MatchExamples(p, url, rawQuery, httpRequestBody, requestHeaders) ==
    LET m1 == IF UriHasBrace(p.uri)
              THEN MatchFacet(<<>>, p, "path", PathVariables(p.uri, url))
              ELSE <<>>
        m2 == IF rawQuery.t # "absent"
              THEN MatchFacet(m1, p, "query", rawQuery.entries)
              ELSE m1
        m3 == IF requestHeaders.has
              THEN MatchFacet(m2, p, "header", requestHeaders.entries)
              ELSE m2
    IN  IF httpRequestBody.t # "absent" /\ ContentEntries(p) # <<>>
        THEN MatchBody(m3, ContentEntries(p), httpRequestBody.val)
        ELSE m3

\* The exception the call ends with, "" when it returns: JSON.parse throws a
\* SyntaxError on text that is not JSON; Object.entries throws a TypeError on the
\* null that path.test returns for a url that does not bind, on the undefined
\* examples of a content entry that declares none, and on a null value. The
\* facets run in the order path, query, header, body.
FindThrows(p, url, rawQuery, httpRequestBody, requestHeaders) ==
    IF UriHasBrace(p.uri) /\ ~PathBinds(p.uri, url) THEN "TypeError"
    ELSE IF UriHasBrace(p.uri) /\ FacetThrows(p, "path", PathVariables(p.uri, url))
    THEN "TypeError"
    ELSE IF rawQuery.t = "malformed" THEN "SyntaxError"
    ELSE IF rawQuery.t = "json" /\ FacetThrows(p, "query", rawQuery.entries)
    THEN "TypeError"
    ELSE IF requestHeaders.has /\ FacetThrows(p, "header", requestHeaders.entries)
    THEN "TypeError"
    ELSE IF httpRequestBody.t = "malformed" /\ ContentEntries(p) # <<>>
    THEN "SyntaxError"
    ELSE IF /\ httpRequestBody.t = "json"
            /\ \E i \in 1..Len(ContentEntries(p)) : ~ContentEntries(p)[i].examples.has
    THEN "TypeError"
    ELSE ""

\* SelectWinner without the comparison of the match counter with the total: a name
\* that matched in some of its places only can win
RECURSIVE SelectWinnerPartial(_, _, _)
SelectWinnerPartial(responseName, matches, total) ==
    IF matches = <<>> THEN responseName
    ELSE LET matchName == Head(matches).name
             matchValue == Head(matches).n
         IN  SelectWinnerPartial(
                IF /\ matchValue > 0
                   /\ (responseName = NoName \/ matchValue > Count(total, responseName))
                THEN matchName
                ELSE responseName,
                Tail(matches), total)

\* Step 3: the loop over matchExamples; responseName starts undefined
RECURSIVE SelectWinner(_, _, _)
SelectWinner(responseName, matches, total) ==
    IF matches = <<>> THEN responseName
    ELSE LET matchName == Head(matches).name
             matchValue == Head(matches).n
         IN  SelectWinner(
                IF /\ matchValue > 0
                   /\ matchValue = Count(total, matchName)
                   /\ (responseName = NoName \/ matchValue > Count(total, responseName))
                THEN matchName
                ELSE responseName,
                Tail(matches), total)

\* The value findPreferredExampleByRequest returns, when it returns
findPreferredExampleByRequest(p, url, rawQuery, httpRequestBody, requestHeaders) ==
    IF TallyIsEmpty(TotalExamples(p)) THEN FIRST_RESPONSE
    ELSE SelectWinner(NoName,
                      MatchExamples(p, url, rawQuery, httpRequestBody, requestHeaders),
                      TotalExamples(p))

----------------------------------------------------------------------------
(* Path.getResponse and what it calls *)

\* The number a response key reads as, -1 for a key that is not an integer index
KeyNumber(k) ==
    CASE k = "200" -> 200
      [] k = "201" -> 201
      [] k = "400" -> 400
      [] k = "404" -> 404
      [] k = "500" -> 500
      [] OTHER -> -1

\* Number(statusCode) for the string key of a response: NaN when the key is no number
NumberOfKey(k) == [t |-> "number", v |-> IF KeyNumber(k) >= 0 THEN k ELSE "NaN"]

\* Object.entries(this.responses), as the indices of the responses in the order the
\* engine enumerates the keys: integer keys first, ascending, then the other keys in
\* the order they were declared
RECURSIVE AscendingKeys(_, _)
AscendingKeys(responses, left) ==
    IF left = {} THEN <<>>
    ELSE LET i == CHOOSE i \in left :
                    \A j \in left : KeyNumber(responses[i].code) <= KeyNumber(responses[j].code)
         IN  <<i>> \o AscendingKeys(responses, left \ {i})

RECURSIVE DeclaredOrder(_, _)
DeclaredOrder(responses, i) ==
    IF i > Len(responses) THEN <<>>
    ELSE (IF KeyNumber(responses[i].code) < 0 THEN <<i>> ELSE <<>>)
         \o DeclaredOrder(responses, i + 1)

ObjectEntries(responses) ==
    AscendingKeys(responses, {i \in 1..Len(responses) : KeyNumber(responses[i].code) >= 0})
    \o DeclaredOrder(responses, 1)

\* this.responses[statusCode]: the index of the response with that key, 0 when undefined
ResponseIndex(p, statusCode) ==
    IF \E i \in 1..Len(p.responses) : p.responses[i].code = statusCode
    THEN CHOOSE i \in 1..Len(p.responses) : p.responses[i].code = statusCode
    ELSE 0

\* const [[responseMimeType, responseContent] = []] = Object.entries(response.content || {})
FirstContent(response) ==
    IF response.content.has /\ response.content.list # <<>>
    THEN <<Head(response.content.list)>>
    ELSE <<>>

MimeType(response) ==
    IF FirstContent(response) = <<>> THEN NoName ELSE FirstContent(response)[1].mime

\* { statusCode, schema, responseMimeType, headers } of one declared response
Declared(response) ==
    [statusCode |-> response.code,
     schema |-> FirstContent(response),
     responseMimeType |-> MimeType(response),
     headers |-> response.headers]

getFirstResponse(p) == Declared(p.responses[ObjectEntries(p.responses)[1]])

getResponseByStatusCode(p, statusCode) ==
    IF ResponseIndex(p, statusCode) = 0
    THEN getFirstResponse(p)
    ELSE [Declared(p.responses[ResponseIndex(p, statusCode)]) EXCEPT !.statusCode = statusCode]

\* ResponseGenerator.generate(schema, preferredExampleName) of lib/response-generator:
\* a value that depends on the schema and on the hint
Generate(schema, hint) == [schema |-> schema, hint |-> hint]

\* generateResponseHeaders: one generated value per declared header, no hint
generateResponseHeaders(headers) ==
    [i \in 1..Len(headers) |->
        [name |-> headers[i].name, value |-> Generate(headers[i].data, NoName)]]

\* headers && this.generateResponseHeaders(headers)
ResponseHeaders(headers) ==
    [t |-> headers.t,
     list |-> IF headers.t = "object" THEN generateResponseHeaders(headers.list) ELSE <<>>]

\* { examples: { ex_01: { value: preferredExampleName } } }
RTagData(name) == <<"examples", "ex_01", name>>

\* headers.RTag = ...: replaces the entry when the object has one, adds it otherwise
SetRTag(list, name) ==
    IF \E i \in 1..Len(list) : list[i].name = "RTag"
    THEN [i \in 1..Len(list) |->
            IF list[i].name = "RTag" THEN [list[i] EXCEPT !.data = RTagData(name)] ELSE list[i]]
    ELSE Append(list, [name |-> "RTag", data |-> RTagData(name)])

\* responseContent.examples[name]: the entry of that name, <<>> when undefined
ExampleNamed(content, name) ==
    IF content # <<>> /\ content[1].examples.has
       /\ \E i \in 1..Len(content[1].examples.list) : content[1].examples.list[i].name = name
    THEN <<CHOOSE e \in {content[1].examples.list[i] : i \in 1..Len(content[1].examples.list)} :
                e.name = name>>
    ELSE <<>>

\* The callback of find: the response's first content entry has examples, one of
\* them under the name, and that example's value is truthy
HasExample(response, name) ==
    /\ FirstContent(response) # <<>>
    /\ FirstContent(response)[1].examples.has
    /\ Len(FirstContent(response)[1].examples.list) > 0
    /\ ExampleNamed(FirstContent(response), name) # <<>>
    /\ Truthy(ExampleNamed(FirstContent(response), name)[1].value)

\* Object.entries(this.responses).find(...): the index of the response found, 0 for none
FoundResponse(p, name) ==
    LET order == ObjectEntries(p.responses) IN
    IF \E k \in 1..Len(order) : HasExample(p.responses[order[k]], name)
    THEN order[CHOOSE k \in 1..Len(order) :
                /\ HasExample(p.responses[order[k]], name)
                /\ \A j \in 1..(k - 1) : ~HasExample(p.responses[order[j]], name)]
    ELSE 0

NoBody == [kind |-> "null", schema |-> <<>>, hint |-> NoName, value |-> Null]

\* getFirstResponseByExampleName answering a name it does not find with the first
\* response, as its warning says, instead of the 400
getFirstResponseByExampleNameFallsBack(p, name) ==
    IF name = NoName
    THEN [statusCode |-> [t |-> "number", v |-> "400"],
          body |-> NoBody,
          responseMimeType |-> "application/json",
          headers |-> [t |-> "null", list |-> <<>>]]
    ELSE LET found == FoundResponse(p, name)
             r == p.responses[IF found = 0 THEN ObjectEntries(p.responses)[1] ELSE found]
         IN  [statusCode |-> [t |-> "string", v |-> r.code],
              body |-> IF found = 0 THEN NoBody
                       ELSE [NoBody EXCEPT !.kind = "value",
                                           !.value = ExampleNamed(FirstContent(r), name)[1].value],
              responseMimeType |-> MimeType(r),
              headers |-> [t |-> "object",
                           list |-> SetRTag(IF r.headers.t = "object" THEN r.headers.list ELSE <<>>,
                                            name)]]

\* What getFirstResponseByExampleName returns: { statusCode, body, responseMimeType, headers }
getFirstResponseByExampleName(p, name) ==
    IF name = NoName
    THEN [statusCode |-> [t |-> "number", v |-> "400"],
          body |-> NoBody,
          responseMimeType |-> "application/json",
          headers |-> [t |-> "null", list |-> <<>>]]
    ELSE IF FoundResponse(p, name) = 0
    THEN [statusCode |-> [t |-> "number", v |-> "400"],
          body |-> [NoBody EXCEPT !.kind = "message", !.hint = name],
          responseMimeType |-> "application/json",
          headers |-> [t |-> "object", list |-> <<[name |-> "RTag", data |-> RTagData(name)]>>]]
    ELSE LET r == p.responses[FoundResponse(p, name)] IN
         [statusCode |-> [t |-> "string", v |-> r.code],
          body |-> [NoBody EXCEPT !.kind = "value",
                                  !.value = ExampleNamed(FirstContent(r), name)[1].value],
          responseMimeType |-> MimeType(r),
          headers |-> [t |-> "object",
                       list |-> SetRTag(IF r.headers.t = "object" THEN r.headers.list ELSE <<>>,
                                        name)]]

\* What getFirstResponseByExampleName leaves of the Path: the headers object of the
\* response it found is the declared one when the response declares headers
\* (preferredResponse.headers || {}), and RTag is assigned into it
PathAfterExampleName(p, name) ==
    IF name # NoName /\ FoundResponse(p, name) # 0
       /\ p.responses[FoundResponse(p, name)].headers.t = "object"
    THEN [p EXCEPT !.responses[FoundResponse(p, name)].headers.list = SetRTag(@, name)]
    ELSE p

\* The value getResponse returns
getResponse(p, preferredStatusCode, preferredExampleName) ==
    IF preferredStatusCode # NoName \/ preferredExampleName = FIRST_RESPONSE
    THEN LET r == IF preferredStatusCode # NoName
                  THEN getResponseByStatusCode(p, preferredStatusCode)
                  ELSE getFirstResponse(p)
         IN  [statusCode |-> NumberOfKey(r.statusCode),
              headers |-> ResponseHeaders(r.headers),
              body |-> IF r.schema # <<>>
                       THEN [NoBody EXCEPT
                                !.kind = "generated",
                                !.schema = Generate(r.schema, preferredExampleName).schema,
                                !.hint = Generate(r.schema, preferredExampleName).hint]
                       ELSE NoBody,
              responseMimeType |-> r.responseMimeType]
    ELSE LET r == getFirstResponseByExampleName(p, preferredExampleName)
         IN  [statusCode |-> r.statusCode,
              headers |-> ResponseHeaders(r.headers),
              body |-> r.body,
              responseMimeType |-> r.responseMimeType]

\* The Path after getResponse
PathAfterGetResponse(p, preferredStatusCode, preferredExampleName) ==
    IF preferredStatusCode # NoName \/ preferredExampleName = FIRST_RESPONSE
    THEN p
    ELSE PathAfterExampleName(p, preferredExampleName)

----------------------------------------------------------------------------
(* Path.validateRequestParameters and what it calls *)

NaN == <<"N", "a", "N">>

Digits == {"0", "1", "2", "3", "4", "5", "6", "7", "8", "9"}

\* The text is a decimal literal: digits with at most one point among them
IsDecimal(c) ==
    /\ \E i \in 1..Len(c) : c[i] \in Digits
    /\ \A i \in 1..Len(c) : c[i] \in Digits \cup {"."}
    /\ Cardinality({i \in 1..Len(c) : c[i] = "."}) <= 1

\* Number(value), as the text of the number
NumberOf(x) ==
    CASE x.t = "number" -> x.v
      [] x.t = "string" -> IF x.v = <<>> THEN <<"0">> ELSE IF IsDecimal(x.v) THEN x.v ELSE NaN
      [] x.t = "boolean" -> IF x.v = <<"true">> THEN <<"1">> ELSE <<"0">>
      [] x.t = "null" -> <<"0">>
      [] x.t = "array" -> IF x.v = <<>> THEN <<"0">> ELSE IF IsDecimal(x.v) THEN x.v ELSE NaN
      [] OTHER -> NaN

\* parseInt(n, 10) !== n for a number that is not NaN: it has a fractional part
HasFraction(c) == \E i \in 1..Len(c) : c[i] = "."

KnownTypes == {"array", "object", "string", "number", "integer", "boolean"}

\* isValidType: TRUE when the value is NOT of the type (the caller's `error`)
isValidType(type, value) ==
    CASE type = "array"   -> value.t # "array"
      [] type = "object"  -> value.t \notin {"object", "null"}
      [] type = "string"  -> value.t # "string"
      [] type = "number"  -> NumberOf(value) = NaN
      [] type = "integer" -> NumberOf(value) = NaN \/ HasFraction(NumberOf(value))
      [] type = "boolean" ->
            /\ value.t # "boolean"
            /\ value # Str(<<"t", "r", "u", "e">>)
            /\ value # Str(<<"f", "a", "l", "s", "e">>)
      [] OTHER -> FALSE

\* A validation message. text names the template of the message, the other
\* fields what it is filled with.
Message(text, in, name, detail) == [text |-> text, in |-> in, name |-> name, detail |-> detail]

NoMessage == Message("", "", "", "")

\* validateParameterType: isValidType throws for an undeclared type, and the
\* message of the exception is returned
validateParameterType(parameter, value) ==
    IF parameter.schema.type \notin KnownTypes
    THEN Message("Invalid type declaration", parameter.in, parameter.name, parameter.schema.type)
    ELSE IF isValidType(parameter.schema.type, value)
    THEN Message("Invalid param. Expected value of type", parameter.in, parameter.name,
                 parameter.schema.type)
    ELSE NoMessage

\* possibleValues.includes(value): equal primitives are equal, an array or an object
\* is only equal to itself
isValidEnumValue(possibleValues, value) ==
    \/ possibleValues = <<>>
    \/ \E i \in 1..Len(possibleValues) :
            possibleValues[i] = value /\ value.t \notin {"array", "object"}

validateParameterEnum(parameter, value) ==
    IF ~isValidEnumValue(parameter.schema.enum, value)
    THEN Message("Invalid param. Expected enum of", parameter.in, parameter.name, "")
    ELSE NoMessage

validateParameterSchema(parameter, value) ==
    IF ~parameter.schema.has \/ parameter.schema.type = ""
    THEN NoMessage
    ELSE IF validateParameterType(parameter, value) # NoMessage
    THEN validateParameterType(parameter, value)
    ELSE validateParameterEnum(parameter, value)

\* requestParameters[name]
Lookup(entries, name) ==
    IF \E i \in 1..Len(entries) : entries[i].k = name
    THEN (CHOOSE e \in {entries[i] : i \in 1..Len(entries)} : e.k = name).v
    ELSE Undefined

validateParameterIn(parameter, requestParameters) ==
    IF parameter.required /\ Lookup(requestParameters, parameter.name) = Undefined
    THEN Message("Missing required param", parameter.in, parameter.name, "")
    ELSE IF Lookup(requestParameters, parameter.name) = Undefined
    THEN NoMessage
    ELSE validateParameterSchema(parameter, Lookup(requestParameters, parameter.name))

validateParameter(parameter, request) ==
    CASE parameter.in = "header" ->
            validateParameterIn([parameter EXCEPT !.name = ToLowerCase(parameter.name)],
                                request.headers)
      [] parameter.in = "query"  -> validateParameterIn(parameter, request.query)
      [] parameter.in = "path"   -> validateParameterIn(parameter, request.path)
      [] parameter.in = "cookie" -> validateParameterIn(parameter, request.cookies)
      [] OTHER -> Message("Invalid declaration for param", parameter.in, parameter.name, "")

\* SchemaValidator.validate(value, schema) of lib/schema-validator: the violations
\* of the value, in order; the schemas of the model name a type and required keys
RECURSIVE MissingKeys(_, _)
MissingKeys(keys, value) ==
    IF keys = <<>> THEN <<>>
    ELSE (IF \E pr \in Pairs(value) : pr[1] = Head(keys)
          THEN <<>>
          ELSE <<[dataPath |-> "", message |-> "should have required property", key |-> Head(keys)]>>)
         \o MissingKeys(Tail(keys), value)

SchemaValidate(value, schema) ==
    IF value.t # schema.type
    THEN <<[dataPath |-> "", message |-> "should be of type", key |-> schema.type]>>
    ELSE IF value.t = "object" THEN MissingKeys(schema.required, value) ELSE <<>>

\* content['application/json']: the entry of that mime type, <<>> when undefined
JsonContent(requestBody) ==
    IF requestBody.content.has
       /\ \E i \in 1..Len(requestBody.content.list) :
            requestBody.content.list[i].mime = "application/json"
    THEN <<CHOOSE e \in {requestBody.content.list[i] : i \in 1..Len(requestBody.content.list)} :
                e.mime = "application/json">>
    ELSE <<>>

validateRequestBody(p, requestBody) ==
    IF ~p.requestBody.declared THEN <<>>
    ELSE IF ~Truthy(requestBody)
    THEN (IF p.requestBody.required
          THEN <<Message("Missing required request body", "", "", "")>>
          ELSE <<>>)
    ELSE IF JsonContent(p.requestBody) = <<>> \/ ~JsonContent(p.requestBody)[1].schema.has
    THEN <<>>
    ELSE LET validationErrors == SchemaValidate(requestBody, JsonContent(p.requestBody)[1].schema)
         IN  [i \in 1..Len(validationErrors) |->
                Message("Invalid request body", validationErrors[i].dataPath,
                        validationErrors[i].key, validationErrors[i].message)]

\* .map(parameter => this.validateParameter(parameter, request)).filter(validation => !!validation)
RECURSIVE ParameterMessages(_, _)
ParameterMessages(parameters, request) ==
    IF parameters = <<>> THEN <<>>
    ELSE (IF validateParameter(Head(parameters), request) # NoMessage
          THEN <<validateParameter(Head(parameters), request)>>
          ELSE <<>>)
         \o ParameterMessages(Tail(parameters), request)

\* validateRequestParameters with the parameters' messages put before the body's
validateRequestParametersBodyLast(p, request) ==
    ParameterMessages(p.parameters, request) \o validateRequestBody(p, request.requestBody)

validateRequestParameters(p, request) ==
    validateRequestBody(p, request.requestBody) \o ParameterMessages(p.parameters, request)

----------------------------------------------------------------------------
(* handleRequest of request-handler.js *)

\* path.security || globalSecurity || []
PathSecurity(p, config) ==
    IF p.security.has THEN p.security.list
    ELSE IF config.globalSecurity.has THEN config.globalSecurity.list
    ELSE <<>>

\* .filter(value => Object.keys(value).length !== 0).flatMap(x => Object.keys(x))
RECURSIVE ValidSecurities(_)
ValidSecurities(requirements) ==
    IF requirements = <<>> THEN <<>>
    ELSE Head(requirements) \o ValidSecurities(Tail(requirements))

\* securitySchemes[securityKey]: <<>> when undefined
SecurityScheme(config, key) ==
    IF \E i \in 1..Len(config.securitySchemes.list) : config.securitySchemes.list[i].key = key
    THEN <<CHOOSE e \in {config.securitySchemes.list[i] : i \in 1..Len(config.securitySchemes.list)} :
                e.key = key>>
    ELSE <<>>

\* authorization.split(' '): the words of the header
Split(c) == SelectSeq(c, LAMBDA x : x # " ")

\* The body of the loop for one security key: "ok", "invalid" (isValidRequest is
\* set to false) or "TypeError" (toLowerCase of the undefined scheme of a security
\* scheme that is neither apiKey nor declares a scheme)
CheckScheme(config, key, req) ==
    IF SecurityScheme(config, key) = <<>> THEN "ok"
    ELSE LET securityScheme == SecurityScheme(config, key)[1] IN
         IF securityScheme.type = "apiKey"
         THEN LET securityCheck ==
                    CASE securityScheme.in = "header" ->
                            Lookup(req.headers, ToLowerCase(securityScheme.name))
                      [] securityScheme.in = "query" ->
                            Lookup(req.query, ToLowerCase(securityScheme.name))
                      [] securityScheme.in = "cookie" ->
                            Lookup(req.cookies, ToLowerCase(securityScheme.name))
                      [] OTHER -> Null
              IN  IF \/ ~Truthy(securityCheck)
                     \/ /\ Truthy(securityScheme.xvalue)
                        /\ securityCheck.v # securityScheme.xvalue.v
                  THEN "invalid"
                  ELSE "ok"
         ELSE LET authorization == Lookup(req.headers, "authorization") IN
              IF ~Truthy(authorization) THEN "invalid"
              ELSE IF securityScheme.scheme = NoName THEN "TypeError"
              ELSE IF \/ ToLowerCase(Split(authorization.v)[1]) # ToLowerCase(securityScheme.scheme)
                      \/ /\ Truthy(securityScheme.xvalue)
                         /\ \/ Len(Split(authorization.v)) < 2
                            \/ securityScheme.xvalue.v # <<Split(authorization.v)[2]>>
              THEN "invalid"
              ELSE "ok"

\* The security block: "ok" when the request passes it (or there is nothing to
\* check), "invalid" when it ends in the 401, "TypeError" when it throws
SecurityCheck(p, config, req) ==
    IF ~(config.securitySchemes.has /\ Len(config.securitySchemes.list) > 0) THEN "ok"
    ELSE LET keys == ValidSecurities(PathSecurity(p, config)) IN
         IF \E i \in 1..Len(keys) : CheckScheme(config, keys[i], req) = "TypeError"
         THEN "TypeError"
         ELSE IF \E i \in 1..Len(keys) : CheckScheme(config, keys[i], req) = "invalid"
         THEN "invalid"
         ELSE "ok"

\* JSON.stringify(x) as findPreferredExampleByRequest reads it back: undefined stays
\* undefined, anything else is JSON text that parses to x
Stringify(x) == [t |-> IF x = Undefined THEN "absent" ELSE "json", val |-> x]

StringifyQuery(q) == [t |-> "json", entries |-> q]

\* preferredExampleName || requestExampleName
Preferred(a, b) == IF a # NoName THEN a ELSE b

----------------------------------------------------------------------------
(* The operations and the requests the model is checked on *)

\* The longest list of parameters, and of responses, an operation declares
MaxParams == 2
MaxResponses == 2

NoExamples == [has |-> FALSE, list |-> <<>>]
Examples(list) == [has |-> TRUE, list |-> list]
Example(name, value) == [name |-> name, value |-> value]
NoSchema == [has |-> FALSE, type |-> "", enum |-> <<>>, required |-> <<>>]
Schema(type, enum) == [has |-> TRUE, type |-> type, enum |-> enum, required |-> <<>>]

Parameter(in, name, required, deprecated, schema, examples) ==
    [in |-> in, name |-> name, required |-> required, deprecated |-> deprecated,
     schema |-> schema, examples |-> examples]

ParamPool ==
    { Parameter("query", "id", FALSE, FALSE, Schema("integer", <<>>),
                Examples(<<Example("exA", Num(<<"1">>)), Example("exB", Num(<<"2">>))>>)),
      Parameter("query", "tag", TRUE, FALSE, Schema("string", <<Str(<<"a">>), Str(<<"b">>)>>),
                Examples(<<Example("both", Str(<<"a">>)), Example("exT", Str(<<"b">>))>>)),
      Parameter("header", "X-Id", TRUE, TRUE, Schema("string", <<>>),
                Examples(<<Example("exT", Str(<<"b">>)), Example("exH", Str(<<"a">>))>>)),
      Parameter("path", "id", TRUE, FALSE, Schema("integer", <<>>),
                Examples(<<Example("exP", Str(<<"7">>))>>)),
      Parameter("cookie", "sid", FALSE, FALSE, Schema("float", <<>>), NoExamples),
      Parameter("body", "payload", FALSE, FALSE, NoSchema, NoExamples) }

\* Sequences of at most n different members of a set
RECURSIVE ListsOf(_, _)
ListsOf(S, n) ==
    IF n = 0 THEN {<<>>}
    ELSE ListsOf(S, n - 1) \cup
         {Append(l, x) : l \in {l \in ListsOf(S, n - 1) : Len(l) = n - 1}, x \in S}

Distinct(l, key(_)) == \A i, j \in 1..Len(l) : i # j => key(l[i]) # key(l[j])

ParamLists == {l \in ListsOf(ParamPool, MaxParams) : Distinct(l, LAMBDA x : <<x.in, x.name>>)}

Content(mime, schema, examples) == [mime |-> mime, schema |-> schema, examples |-> examples]

NoRequestBody == [declared |-> FALSE, required |-> FALSE, content |-> [has |-> FALSE, list |-> <<>>]]

RequestBodyPool ==
    { NoRequestBody,
      [declared |-> TRUE, required |-> TRUE,
       content |-> [has |-> TRUE, list |-> <<
            Content("application/json",
                    [has |-> TRUE, type |-> "object", enum |-> <<>>, required |-> <<"name", "age">>],
                    Examples(<<Example("both", Obj(<<"name", "x", "age", "1">>)),
                               Example("exBody", Obj(<<"name", "y", "age", "2">>))>>)) >>]],
      [declared |-> TRUE, required |-> FALSE,
       content |-> [has |-> TRUE, list |-> <<
            Content("application/json",
                    [has |-> TRUE, type |-> "object", enum |-> <<>>, required |-> <<>>],
                    NoExamples) >>]] }

Literal(s) == [param |-> FALSE, s |-> s]
Variable(s) == [param |-> TRUE, s |-> s]

NoHeaders == [t |-> "undefined", list |-> <<>>]
Headers(list) == [t |-> "object", list |-> list]

Response(code, headers, content) ==
    [code |-> code, headers |-> headers, content |-> content]

ResponsePool ==
    { Response("200", Headers(<<[name |-> "X-Rate", data |-> <<"schema", "integer">>]>>),
               [has |-> TRUE, list |-> <<
                    Content("application/json", Schema("object", <<>>),
                            Examples(<<Example("exA", Obj(<<"id", "1">>)),
                                       Example("zero", Num(<<"0">>))>>)) >>]),
      Response("404", NoHeaders,
               [has |-> TRUE, list |-> <<
                    Content("application/json", Schema("object", <<>>),
                            Examples(<<Example("exA", Obj(<<"error", "none">>)),
                                       Example("exB", Str(<<"b">>))>>)) >>]),
      Response("201", Headers(<<[name |-> "RTag", data |-> <<"schema", "string">>]>>),
               [has |-> TRUE, list |-> <<
                    Content("text/plain", Schema("string", <<>>),
                            Examples(<<Example("exB", Str(<<"c">>))>>)) >>]),
      Response("default", NoHeaders, [has |-> FALSE, list |-> <<>>]) }

ResponseLists ==
    {l \in ListsOf(ResponsePool, MaxResponses) : l # <<>> /\ Distinct(l, LAMBDA x : x.code)}

NoSecurity == [has |-> FALSE, list |-> <<>>]

SecurityPool == { NoSecurity, [has |-> TRUE, list |-> <<>>],
                  [has |-> TRUE, list |-> << <<>>, <<"BearerAuth">> >>],
                  [has |-> TRUE, list |-> << <<"OAuth">> >>] }

SecurityScheme_(key, type, in, name, xvalue, scheme) ==
    [key |-> key, type |-> type, in |-> in, name |-> name, xvalue |-> xvalue, scheme |-> scheme]

SecurityConfigPool ==
    { [securitySchemes |-> [has |-> FALSE, list |-> <<>>], globalSecurity |-> NoSecurity],
      [securitySchemes |-> [has |-> TRUE, list |-> <<
            SecurityScheme_("ApiKeyAuth", "apiKey", "header", "X-API-Key", Str(<<"k">>), NoName),
            SecurityScheme_("BearerAuth", "http", "", "", Undefined, "bearer"),
            SecurityScheme_("OAuth", "oauth2", "", "", Undefined, NoName) >>],
       globalSecurity |-> [has |-> TRUE, list |-> << <<"ApiKeyAuth">> >>]] }

\* The operation the other ones vary: it has a parameter and a request body that
\* share an example name, and two responses
BasePath ==
    [uri |-> <<Literal("pets")>>,
     parameters |-> <<
        Parameter("query", "tag", TRUE, FALSE, Schema("string", <<Str(<<"a">>), Str(<<"b">>)>>),
                  Examples(<<Example("both", Str(<<"a">>)), Example("exT", Str(<<"b">>))>>)) >>,
     requestBody |-> CHOOSE b \in RequestBodyPool : b.required,
     responses |-> <<CHOOSE r \in ResponsePool : r.code = "200",
                     CHOOSE r \in ResponsePool : r.code = "404">>,
     security |-> NoSecurity]

\* The uri of an operation declares the path parameters the operation declares
UriFor(ps) ==
    IF \E i \in 1..Len(ps) : ps[i].in = "path"
    THEN <<Literal("pets"), Variable("id")>>
    ELSE <<Literal("pets")>>

\* The operations that differ in what a request is validated and matched against
RequestPaths ==
    {[BasePath EXCEPT !.uri = UriFor(ps), !.parameters = ps, !.requestBody = b] :
        ps \in ParamLists, b \in RequestBodyPool}

\* The operations that differ in their responses
ResponsePaths == {[BasePath EXCEPT !.responses = rs] : rs \in ResponseLists}

\* The operations that differ in their security requirements
SecuredPaths == {[BasePath EXCEPT !.security = sc] : sc \in SecurityPool}

\* Arguments of getResponse
StatusCodes == {NoName, "200", "404", "500"}
ExampleNameArgs == {NoName, FIRST_RESPONSE, "exA", "exB", "zero", "missing"}

\* Arguments of findPreferredExampleByRequest
Entry(k, v) == [k |-> k, v |-> v]
\* The url is read only when the uri has a variable segment
Urls(uri) ==
    IF UriHasBrace(uri)
    THEN { <<"pets">>, <<"pets", "7">>, <<"pets", "8">> }
    ELSE { <<"pets">> }
RawQueries ==
    { [t |-> "absent", entries |-> <<>>], [t |-> "malformed", entries |-> <<>>],
      [t |-> "json", entries |-> <<Entry("id", Num(<<"1">>))>>],
      [t |-> "json", entries |-> <<Entry("id", Num(<<"3">>))>>],
      [t |-> "json", entries |-> <<Entry("tag", Str(<<"a">>))>>],
      [t |-> "json", entries |-> <<Entry("tag", Str(<<"b">>)), Entry("id", Str(<<"2">>))>>] }
RawBodies ==
    { [t |-> "absent", val |-> Undefined], [t |-> "malformed", val |-> Undefined],
      [t |-> "json", val |-> Obj(<<"name", "x", "age", "1">>)],
      [t |-> "json", val |-> Obj(<<"age", "2", "name", "y">>)] }
RequestHeaders ==
    { [has |-> FALSE, entries |-> <<>>],
      [has |-> TRUE, entries |-> <<Entry("x-id", Str(<<"b">>))>>],
      [has |-> TRUE, entries |-> <<Entry("X-ID", Str(<<"a">>))>>] }

\* The parts of a request validateRequestParameters is given
HeaderLists == { <<>>, <<Entry("x-id", Str(<<"b">>))>> }
Queries ==
    { <<>>,
      <<Entry("id", Str(<<"1">>))>>, <<Entry("id", Str(<<"1", ".", "5">>))>>,
      <<Entry("tag", Str(<<"a">>))>>,
      <<Entry("tag", Str(<<"c">>)), Entry("id", Str(<<"2">>))>> }
\* The path parameters and the cookies are read only for a parameter declared there
Declares(parameters, in) == \E i \in 1..Len(parameters) : parameters[i].in = in
PathParams(parameters) ==
    IF Declares(parameters, "path")
    THEN { <<>>, <<Entry("id", Str(<<"7">>))>>, <<Entry("id", Str(<<"x">>))>> }
    ELSE { <<>> }
Cookies(parameters) ==
    IF Declares(parameters, "cookie")
    THEN { <<>>, <<Entry("sid", Str(<<"s">>))>> }
    ELSE { <<>> }
Bodies ==
    { Undefined, Obj(<<"name", "x", "age", "1">>), Obj(<<"nick", "x">>), Str(<<"x">>) }

\* The requests handleRequest is given: the router binds the path parameters of the
\* uri, and the headers carry the credentials
HandledHeaders ==
    { <<>>, <<Entry("x-id", Str(<<"b">>))>>,
      <<Entry("x-api-key", Str(<<"k">>)), Entry("x-id", Str(<<"a">>))>>,
      <<Entry("authorization", Str(<<"Bearer", " ", "t">>))>> }
HandledQueries ==
    { <<>>, <<Entry("tag", Str(<<"a">>))>>,
      <<Entry("tag", Str(<<"b">>)), Entry("id", Str(<<"2">>))>> }
HandledParams(uri) ==
    IF UriHasBrace(uri)
    THEN { <<Entry("id", Str(<<"7">>))>>, <<Entry("id", Str(<<"x">>))>> }
    ELSE { <<>> }
HandledBodies == { Undefined, Obj(<<"name", "x", "age", "1">>), Str(<<"x">>) }

\* The Prefer header, as parsePreferHeader reads it
Prefers == { [example |-> NoName, statuscode |-> NoName],
             [example |-> "exA", statuscode |-> NoName],
             [example |-> NoName, statuscode |-> "500"] }

----------------------------------------------------------------------------
(* The state machine *)

NoResponse ==
    [statusCode |-> [t |-> "undefined", v |-> ""], headers |-> [t |-> "undefined", list |-> <<>>],
     body |-> NoBody, responseMimeType |-> NoName]

NoCall == [fn |-> "none"]
NoRet == [thrown |-> "", name |-> NoName, response |-> NoResponse, messages |-> <<>>]

Init ==
    /\ \/ /\ path \in RequestPaths \cup ResponsePaths
          /\ securityConfig = CHOOSE c \in SecurityConfigPool : ~c.securitySchemes.has
       \/ /\ path \in SecuredPaths
          /\ securityConfig \in SecurityConfigPool
    /\ call = NoCall
    /\ ret = NoRet
    /\ log = <<>>
    /\ sent = <<>>

\* path.getResponse(preferredStatusCode, preferredExampleName)
CallGetResponse ==
    /\ call.fn = "none"
    /\ \E status \in StatusCodes, name \in ExampleNameArgs :
        /\ call' = [fn |-> "getResponse", preferredStatusCode |-> status,
                    preferredExampleName |-> name]
        /\ ret' = [NoRet EXCEPT !.response = getResponse(path, status, name)]
        /\ path' = PathAfterGetResponse(path, status, name)
    /\ UNCHANGED <<securityConfig, log, sent>>

\* path.findPreferredExampleByRequest(url, rawQuery, httpRequestBody, requestHeaders)
CallFindPreferredExampleByRequest ==
    /\ call.fn = "none"
    /\ \E url \in Urls(path.uri), rawQuery \in RawQueries, body \in RawBodies, headers \in RequestHeaders :
        /\ call' = [fn |-> "findPreferredExampleByRequest", url |-> url, rawQuery |-> rawQuery,
                    httpRequestBody |-> body, requestHeaders |-> headers]
        /\ ret' = IF FindThrows(path, url, rawQuery, body, headers) # ""
                  THEN [NoRet EXCEPT !.thrown = FindThrows(path, url, rawQuery, body, headers)]
                  ELSE [NoRet EXCEPT !.name =
                            findPreferredExampleByRequest(path, url, rawQuery, body, headers)]
    /\ UNCHANGED <<path, securityConfig, log, sent>>

\* path.validateRequestParameters({ headers, query, path, cookies, requestBody })
CallValidateRequestParameters ==
    /\ call.fn = "none"
    /\ \E headers \in HeaderLists, query \in Queries, params \in PathParams(path.parameters),
          cookies \in Cookies(path.parameters), body \in Bodies :
        LET request == [headers |-> headers, query |-> query, path |-> params,
                        cookies |-> cookies, requestBody |-> body]
        IN  /\ call' = [fn |-> "validateRequestParameters", request |-> request]
            /\ ret' = [NoRet EXCEPT !.messages = validateRequestParameters(path, request)]
    /\ UNCHANGED <<path, securityConfig, log, sent>>

Sent(kind, statusCode, errors, response) ==
    [kind |-> kind, statusCode |-> statusCode, errors |-> errors, response |-> response]

\* The handler handleRequest(path, responseHandler, securityConfig) returns, run on
\* one request. getResponseMemo never finds the arguments in its cache: the
\* memoized function is keyed on all six arguments by identity, and req.headers is
\* a new object for every request.
HandleRequest ==
    /\ call.fn = "none"
    /\ \E headers \in HandledHeaders, query \in HandledQueries,
          params \in HandledParams(path.uri), body \in HandledBodies, prefer \in Prefers :
        LET cookies == <<>>
            url == <<"pets">> \o [i \in 1..Len(params) |-> params[i].v.v[1]]
            req == [headers |-> headers, query |-> query, params |-> params,
                    cookies |-> cookies, body |-> body, path |-> url, prefer |-> prefer]
            security == SecurityCheck(path, securityConfig, req)
            failedValidations ==
                validateRequestParameters(path,
                    [headers |-> headers, query |-> query, path |-> params,
                     cookies |-> cookies, requestBody |-> body])
            rawQuery == StringifyQuery(query)
            rawBody == Stringify(body)
            requestHeaders == [has |-> TRUE, entries |-> headers]
            thrown == FindThrows(path, url, rawQuery, rawBody, requestHeaders)
            requestExampleName ==
                findPreferredExampleByRequest(path, url, rawQuery, rawBody, requestHeaders)
            name == Preferred(prefer.example, requestExampleName)
        IN  /\ call' = [fn |-> "handleRequest", req |-> req]
            /\ IF security = "TypeError"
               THEN /\ log' = <<"security">>
                    /\ sent' = <<>>
                    /\ ret' = [NoRet EXCEPT !.thrown = "TypeError"]
                    /\ path' = path
               ELSE IF security = "invalid"
               THEN /\ log' = <<"security", "responseHandler">>
                    /\ sent' = <<Sent("Unauthorized", "401", <<>>, NoResponse)>>
                    /\ ret' = NoRet
                    /\ path' = path
               ELSE IF Len(failedValidations) # 0
               THEN /\ log' = <<"security", "validateRequestParameters", "responseHandler">>
                    /\ sent' = <<Sent("errors", "400", failedValidations, NoResponse)>>
                    /\ ret' = [NoRet EXCEPT !.messages = failedValidations]
                    /\ path' = path
               ELSE IF thrown # ""
               THEN /\ log' = <<"security", "validateRequestParameters",
                                "findPreferredExampleByRequest">>
                    /\ sent' = <<>>
                    /\ ret' = [NoRet EXCEPT !.thrown = thrown]
                    /\ path' = path
               ELSE /\ log' = <<"security", "validateRequestParameters",
                                "findPreferredExampleByRequest", "getResponse",
                                "responseHandler">>
                    /\ sent' = <<Sent("response", "", <<>>,
                                      getResponse(path, prefer.statuscode, name))>>
                    /\ ret' = [NoRet EXCEPT !.name = requestExampleName,
                                            !.response = getResponse(path, prefer.statuscode, name)]
                    /\ path' = PathAfterGetResponse(path, prefer.statuscode, name)
    /\ UNCHANGED securityConfig

\* The call has returned to its caller; the next one can be made
Return ==
    /\ call.fn # "none"
    /\ call' = NoCall
    /\ ret' = NoRet
    /\ log' = <<>>
    /\ sent' = <<>>
    /\ UNCHANGED <<path, securityConfig>>

Next ==
    \/ CallGetResponse
    \/ CallFindPreferredExampleByRequest
    \/ CallValidateRequestParameters
    \/ HandleRequest
    \/ Return

Spec == Init /\ [][Next]_vars

----------------------------------------------------------------------------
(* Properties *)

IsFind == call.fn = "findPreferredExampleByRequest"
IsGetResponse == call.fn = "getResponse"
IsValidate == call.fn = "validateRequestParameters"
IsHandle == call.fn = "handleRequest"

\* C1: no call of getResponse, findPreferredExampleByRequest or
\* validateRequestParameters changes the Operation (its responses and their declared
\* headers, its parameters, its request body).
C1_OperationIsReadOnly == [][path' = path]_vars

Rank(step) ==
    CASE step = "security" -> 1
      [] step = "validateRequestParameters" -> 2
      [] step = "findPreferredExampleByRequest" -> 3
      [] step = "getResponse" -> 4
      [] OTHER -> 5

Logged(step) == \E i \in 1..Len(log) : log[i] = step

\* C2: every request given to handleRequest goes through security check, validation
\* and resolution in that order and is sent exactly one response: 401 Unauthorized
\* without validation or resolution when the security check fails, else 400 with the
\* validation messages and no resolution when there are any, else the resolved one.
C2_OneResponseInOrder ==
    IsHandle =>
        LET req == call.req
            failed == validateRequestParameters(path,
                        [headers |-> req.headers, query |-> req.query, path |-> req.params,
                         cookies |-> req.cookies, requestBody |-> req.body])
        IN  /\ \A i, j \in 1..Len(log) : i < j => Rank(log[i]) < Rank(log[j])
            /\ Len(sent) = 1
            /\ IF SecurityCheck(path, securityConfig, req) = "invalid"
               THEN /\ sent[1].kind = "Unauthorized" /\ sent[1].statusCode = "401"
                    /\ ~Logged("validateRequestParameters") /\ ~Logged("getResponse")
               ELSE IF failed # <<>>
               THEN /\ sent[1].kind = "errors" /\ sent[1].statusCode = "400"
                    /\ sent[1].errors = failed
                    /\ ~Logged("findPreferredExampleByRequest") /\ ~Logged("getResponse")
               ELSE sent[1].kind = "response" /\ Logged("getResponse")

----------------------------------------------------------------------------
(* The example matcher, stated on the declaration and the request *)

NamesOf(examples) == {examples.list[j].name : j \in 1..Len(examples.list)}

\* The places that declare an example under the name: parameters and content
\* entries of the request body
Places(p, name) ==
    {<<"parameter", i>> : i \in {i \in 1..Len(p.parameters) :
        p.parameters[i].examples.has /\ name \in NamesOf(p.parameters[i].examples)}}
    \cup {<<"content", i>> : i \in {i \in 1..Len(ContentEntries(p)) :
        ContentEntries(p)[i].examples.has /\ name \in NamesOf(ContentEntries(p)[i].examples)}}

DeclaredNames(p) ==
    UNION {NamesOf(p.parameters[i].examples) : i \in 1..Len(p.parameters)}
    \cup UNION {NamesOf(ContentEntries(p)[i].examples) : i \in 1..Len(ContentEntries(p))}

ValueOf(examples, name) ==
    (CHOOSE e \in {examples.list[j] : j \in 1..Len(examples.list)} : e.name = name).value

\* What the request of the last findPreferredExampleByRequest call carries for a
\* kind of parameter
Carried(kind) ==
    CASE kind = "path" /\ UriHasBrace(path.uri) /\ PathBinds(path.uri, call.url) ->
            PathVariables(path.uri, call.url)
      [] kind = "query" /\ call.rawQuery.t = "json" -> call.rawQuery.entries
      [] kind = "header" /\ call.requestHeaders.has -> call.requestHeaders.entries
      [] OTHER -> <<>>

\* The request of the last call matches the example of that name at the place
PlaceMatches(place, name) ==
    IF place[1] = "parameter"
    THEN LET par == path.parameters[place[2]]
             entries == Carried(par.in)
         IN  \E k \in 1..Len(entries) :
                /\ NameMatches(par.in, par, entries[k].k)
                /\ SameEntries(ValueOf(par.examples, name), entries[k].v)
    ELSE /\ call.httpRequestBody.t = "json"
         /\ HashEq(ValueOf(ContentEntries(path)[place[2]].examples, name),
                   call.httpRequestBody.val)

LastTotal == TotalExamples(path)
LastMatch ==
    MatchExamples(path, call.url, call.rawQuery, call.httpRequestBody, call.requestHeaders)

Qualifies(name) == Count(LastMatch, name) > 0 /\ Count(LastMatch, name) = Count(LastTotal, name)

\* Where the name stands in matchExamples: the order the names were found in
FoundAt(name) == CHOOSE i \in 1..Len(LastMatch) : LastMatch[i].name = name

Returned == IsFind /\ ret.thrown = ""

\* C3: findPreferredExampleByRequest returns an example name only if the name's match
\* counter is positive and equals its total-declared counter, that is the request
\* matches it at every place that declares it; and of the names for which that holds
\* it returns the one declared in most places, the first one found among equals.
C3_WinnerMatchesEverywhere ==
    (Returned /\ ret.name \notin {NoName, FIRST_RESPONSE}) =>
        /\ ret.name \in DeclaredNames(path)
        /\ Qualifies(ret.name)
        /\ Count(LastTotal, ret.name) = Cardinality(Places(path, ret.name))
        /\ \A place \in Places(path, ret.name) : PlaceMatches(place, ret.name)
        /\ \A n \in DeclaredNames(path) :
            Qualifies(n) =>
                \/ Count(LastTotal, n) < Count(LastTotal, ret.name)
                \/ /\ Count(LastTotal, n) = Count(LastTotal, ret.name)
                   /\ FoundAt(ret.name) <= FoundAt(n)

\* C3, the case of the claim: an example declared on a query parameter and on the
\* request body, a request that matches it in the query only, and another name returned
C3_Witness ==
    /\ Returned
    /\ \E n \in DeclaredNames(path) :
        /\ \E i \in 1..Len(path.parameters) :
            /\ path.parameters[i].in = "query"
            /\ <<"parameter", i>> \in Places(path, n)
            /\ PlaceMatches(<<"parameter", i>>, n)
        /\ <<"content", 1>> \in Places(path, n)
        /\ ~PlaceMatches(<<"content", 1>>, n)
        /\ ret.name # n
    /\ ret.name \in DeclaredNames(path)

\* C4: findPreferredExampleByRequest returns the first-response sentinel whenever no
\* example name qualifies, be it that the Operation declares no examples or that none
\* of the declared ones wins; what it returns is a declared name or the sentinel.
C4_SentinelWhenNoWinner ==
    Returned =>
        /\ ret.name \in DeclaredNames(path) \cup {FIRST_RESPONSE}
        /\ (\A n \in DeclaredNames(path) : ~Qualifies(n)) => ret.name = FIRST_RESPONSE

\* The Operation of the claim: one query parameter id with the examples exA (1) and
\* exB (2), nothing else to match
OneQueryParameter ==
    /\ Len(path.parameters) = 1
    /\ path.parameters[1].in = "query" /\ path.parameters[1].name = "id"
    /\ path.parameters[1].examples =
            Examples(<<Example("exA", Num(<<"1">>)), Example("exB", Num(<<"2">>))>>)
    /\ ContentEntries(path) = <<>>

\* C5: an example of a path, query or header parameter counts as matched only when
\* the request's value for the parameter equals the example's value; with one query
\* parameter id declaring exA = 1 and exB = 2, query id = 1 resolves to exA and
\* query id = 3 to the first-response sentinel.
C5_ExactValueMatch ==
    Returned =>
        /\ \A n \in DeclaredNames(path) : \A place \in Places(path, n) :
            (place[1] = "parameter" /\ PlaceMatches(place, n)) =>
                \E k \in 1..Len(Carried(path.parameters[place[2]].in)) :
                    Carried(path.parameters[place[2]].in)[k].v
                        = ValueOf(path.parameters[place[2]].examples, n)
        /\ (OneQueryParameter /\ call.rawQuery.t = "json"
                /\ call.rawQuery.entries = <<Entry("id", Num(<<"1">>))>>)
            => ret.name = "exA"
        /\ (OneQueryParameter /\ call.rawQuery.t = "json"
                /\ call.rawQuery.entries = <<Entry("id", Num(<<"3">>))>>)
            => ret.name = FIRST_RESPONSE

\* C6: findPreferredExampleByRequest raises nothing on a query or a body that is not
\* JSON or on a path that does not bind to the uri: the facet matches nothing, the
\* other facets are scored, and a name or the sentinel is returned.
C6_NeverRaises == IsFind => ret.thrown = ""

----------------------------------------------------------------------------
(* The resolver *)

\* The response the declaration lists first, as getResponse is to return it for
\* the example-name hint
FirstDeclared(p, hint) ==
    [statusCode |-> NumberOfKey(p.responses[1].code),
     headers |-> ResponseHeaders(p.responses[1].headers),
     body |-> IF FirstContent(p.responses[1]) # <<>>
              THEN [NoBody EXCEPT !.kind = "generated",
                                  !.schema = FirstContent(p.responses[1]),
                                  !.hint = hint]
              ELSE NoBody,
     responseMimeType |-> MimeType(p.responses[1])]

\* C7: a request that prefers a status code the Operation does not declare is
\* answered as the same request with no status code at all is, and that answer is
\* the first declared response in declaration order. (Stated on handleRequest for
\* the requests that name no example and match none.)
C7_UndeclaredStatusAsNoStatus ==
    (/\ IsHandle /\ Len(sent) = 1 /\ sent[1].kind = "response"
     /\ call.req.prefer.statuscode # NoName
     /\ ResponseIndex(path, call.req.prefer.statuscode) = 0
     /\ call.req.prefer.example = NoName /\ ret.name = NoName)
    => /\ sent[1].response = getResponse(path, NoName, ret.name)
       /\ sent[1].response = FirstDeclared(path, ret.name)

\* The responses, in declaration order, whose first content entry has an example
\* of the name
Holders(p, name) ==
    {i \in 1..Len(p.responses) :
        /\ FirstContent(p.responses[i]) # <<>>
        /\ FirstContent(p.responses[i])[1].examples.has
        /\ name \in NamesOf(FirstContent(p.responses[i])[1].examples)}

FirstHolder(p, name) == CHOOSE i \in Holders(p, name) : \A j \in Holders(p, name) : i <= j

ByExampleName ==
    /\ IsGetResponse
    /\ call.preferredStatusCode = NoName
    /\ call.preferredExampleName \notin {NoName, FIRST_RESPONSE}

\* C8: getResponse with no status code and an example name resolves to the first
\* response, in declaration order, whose first content entry has an example of that
\* name: the result has that response's status code and mime type, and the example's
\* value as its body, whatever the value.
C8_FirstResponseWithExample ==
    (ByExampleName /\ Holders(path, call.preferredExampleName) # {}) =>
        LET r == path.responses[FirstHolder(path, call.preferredExampleName)] IN
        /\ ret.response.statusCode.v = r.code
        /\ ret.response.responseMimeType = MimeType(r)
        /\ ret.response.body.kind = "value"
        /\ ret.response.body.value
            = ValueOf(FirstContent(r)[1].examples, call.preferredExampleName)

\* No declared response has an example of the name, in any content entry
NowhereDeclared(p, name) ==
    \A i \in 1..Len(p.responses) : \A j \in 1..Len(p.responses[i].content.list) :
        name \notin NamesOf(p.responses[i].content.list[j].examples)

----------------------------------------------------------------------------
(* The validator *)

ValidIn == {"header", "query", "path", "cookie"}

\* The value the request of the last validateRequestParameters call has for the
\* parameter, Undefined when it has none
Given(par) ==
    LET request == call.request IN
    CASE par.in = "header" -> Lookup(request.headers, ToLowerCase(par.name))
      [] par.in = "query"  -> Lookup(request.query, par.name)
      [] par.in = "path"   -> Lookup(request.path, par.name)
      [] par.in = "cookie" -> Lookup(request.cookies, par.name)
      [] OTHER -> Undefined

MissingRequired(par) == par.required /\ Given(par) = Undefined

\* The parameter is present and its value is not of the declared type or not one of
\* the declared enum
FailsCheck(par) ==
    /\ Given(par) # Undefined
    /\ par.schema.has /\ par.schema.type # ""
    /\ \/ par.schema.type \notin KnownTypes
       \/ isValidType(par.schema.type, Given(par))
       \/ /\ par.schema.enum # <<>>
          /\ \A k \in 1..Len(par.schema.enum) : par.schema.enum[k] # Given(par)

BodyTexts == {"Missing required request body", "Invalid request body"}

\* The body of the last call is acceptable to the declared request body
BodyIsValid ==
    \/ ~path.requestBody.declared
    \/ ~Truthy(call.request.requestBody) /\ ~path.requestBody.required
    \/ /\ Truthy(call.request.requestBody)
       /\ \/ JsonContent(path.requestBody) = <<>>
          \/ ~JsonContent(path.requestBody)[1].schema.has
          \/ SchemaValidate(call.request.requestBody, JsonContent(path.requestBody)[1].schema) = <<>>

\* The messages are the body's, then one for each parameter that Fails, in
\* declaration order: 'Missing required' for the absent ones
ListedAs(messages, Fails(_)) ==
    LET failing == SelectSeq([i \in 1..Len(path.parameters) |-> i],
                             LAMBDA i : Fails(path.parameters[i]))
        b == Cardinality({i \in 1..Len(messages) : messages[i].text \in BodyTexts})
    IN  /\ \A i \in 1..Len(messages) : (messages[i].text \in BodyTexts) <=> (i <= b)
        /\ (b = 0) <=> BodyIsValid
        /\ Len(messages) = b + Len(failing)
        /\ \A j \in 1..Len(failing) :
            LET par == path.parameters[failing[j]]
                m == messages[b + j]
            IN  /\ m.in = par.in
                /\ m.name = (IF par.in = "header" THEN ToLowerCase(par.name) ELSE par.name)
                /\ (m.text = "Missing required param") <=> MissingRequired(par)
        /\ (messages = <<>>) <=>
                (BodyIsValid /\ \A i \in 1..Len(path.parameters) : ~Fails(path.parameters[i]))

FailsAsClaimed(par) == MissingRequired(par) \/ FailsCheck(par)

FailsOrMisdeclared(par) ==
    IF par.in \in ValidIn THEN MissingRequired(par) \/ FailsCheck(par) ELSE TRUE

\* C10: validateRequestParameters returns the body-validation messages, then at most
\* one message per declared parameter in declaration order: one 'Missing required'
\* message for each required parameter that is absent, one message for each present
\* parameter that fails its type or enum check, none for the others; the list is
\* empty exactly when the body and every parameter are valid.
C10_MessagesAsClaimed == IsValidate => ListedAs(ret.messages, FailsAsClaimed)

\* C10 as amended: the same, with one 'Invalid declaration' message, whatever the
\* request, for each parameter declared in something else than header, query, path
\* or cookie; such a parameter is not a valid one.
C10_MessagesInOrder ==
    IsValidate =>
        /\ ListedAs(ret.messages, FailsOrMisdeclared)
        /\ \A i \in 1..Len(ret.messages) :
            (ret.messages[i].text = "Invalid declaration for param")
                <=> (ret.messages[i].in \notin ValidIn /\ ret.messages[i].text \notin BodyTexts)

\* C10: a request whose body and two parameters all fail, one parameter being absent
\* and the other present with a bad value
C10_Witness ==
    /\ IsValidate
    /\ Len(ret.messages) >= 4
    /\ ret.messages[1].text = "Invalid request body"
    /\ ret.messages[2].text = "Invalid request body"
    /\ ret.messages[3].text = "Missing required param"
    /\ ret.messages[4].text = "Invalid param. Expected value of type"

\* A status code that is a number and an integer, not a string and not NaN
IsInteger(statusCode) == statusCode.t = "number" /\ statusCode.v # "NaN"

\* C11: every result getResponse returns has a statusCode that is an integer (a
\* number, never a string), whether it was resolved by status code, as the first
\* response, by the name of an example, or is the 400 of a miss.
C11_StatusCodeIsInteger == IsGetResponse => IsInteger(ret.response.statusCode)

====
